---- MODULE Spec2Model ----
(***************************************************************************)
(* NewsPortal (Django): subscriptions, the author's daily news quota and   *)
(* account activation, as implemented by news/views.py.                    *)
(*                                                                         *)
(* Time is counted in whole hours of UTC since 00:00 UTC of day 0.         *)
(* Sequential specifications (SpecSub, SpecNews, SpecAct) run each request *)
(* handler as one action; the concurrent ones (SpecSubConc, SpecNewsConc,  *)
(* SpecActConc) split a handler at its database statements, which Django   *)
(* runs in autocommit mode (settings.py sets no ATOMIC_REQUESTS).          *)
(***************************************************************************)
EXTENDS Integers, FiniteSets, Sequences, TLC

VARIABLES
    subscriptions,  \* rows of news_subscription: [id, user, category]
    nextSubId,      \* next primary key of news_subscription
    posts,          \* rows of news_post: [id, author, post_type, created_at,
                    \* categories, content]; content names whose text it holds
    nextPostId,     \* next primary key of news_post
    authorRows,     \* users owning an Author row
    authorsGroup,   \* members of the auth group 'authors'
    groupExists,    \* whether the auth group 'authors' exists
    groupPerms,     \* the permissions of the group 'authors'
    tokens,         \* rows of news_activationtoken: [token, user, created_at, activated]
    nextToken,      \* the next fresh token string
    isActive,       \* auth_user.is_active, per user
    now,            \* the server clock, hours of UTC
    reqs,           \* requests in flight (concurrent specifications)
    lastOp          \* what the last handler did and answered; seq alternates
                    \* so that a repeated request is a step of its own

vars == <<subscriptions, nextSubId, posts, nextPostId, authorRows, authorsGroup,
          groupExists, groupPerms, tokens, nextToken, isActive, now, reqs, lastOp>>

----------------------------------------------------------------------------
(* Bounds of the model *)

MaxSubRows == 3     \* subscription rows ever inserted
MaxPosts == 4       \* posts ever inserted
MaxClock == 27      \* last hour the clock reaches
MaxEditPosts == 2   \* posts inserted where posts are edited or announced
MaxTokens == 4      \* activation tokens ever issued

(* Program constants *)

NEWS_LIMIT == 3         \* max(0, 3 - ...) in views.py
TZ_OFFSET_HOURS == 3    \* TIME_ZONE = 'Europe/Moscow' is UTC+3, no DST
TOKEN_VALID_HOURS == 24 \* the activation token's validity window, 1 day
HOURS_PER_DAY == 24     \* .date() and datetime.combine work on calendar days

Users == {"u1", "u2"}
Categories == {1, 2}            \* ids of existing Category rows
CategoryIds == Categories \cup {9}   \* 9: an id no Category row has
ReqIds == {"r1", "r2"}
TokenStrings == (1..MaxTokens) \cup {9}   \* 9: a string no ActivationToken row has
TickSteps == {3, 12}
NEWS == "NW"
ARTICLE == "AR"

Max(a, b) == IF a >= b THEN a ELSE b

\* the permissions of the model Post
PostPerms == {"add_post", "change_post", "delete_post", "view_post"}

\* is_staff
Staff == {"u2"}

\* no email to anybody
NoMail == [u \in Users |-> 0]

NoOp == [seq |-> 0, op |-> "none", who |-> "anon", arg |-> 0, status |-> "none", n |-> 0,
         mail |-> NoMail, msgs |-> {}, sel |-> {}]

\* the record a handler leaves in lastOp: mail counts the emails it sent to
\* each user, msgs are the messages it showed or logged besides its status,
\* sel are the ids of the posts it worked on
Answer(op, who, arg, status, n) ==
    [seq |-> 1 - lastOp.seq, op |-> op, who |-> who, arg |-> arg, status |-> status, n |-> n,
     mail |-> NoMail, msgs |-> {}, sel |-> {}]

\* a message about one post, or (post 0) about count posts
Msg(level, post, count) == [level |-> level, post |-> post, count |-> count]

Idle == [pc |-> "idle", op |-> "none", who |-> "anon", arg |-> 0,
         seenActivated |-> FALSE, seenCreated |-> 0, seenUser |-> "anon",
         seenCount |-> 0]

----------------------------------------------------------------------------
(* Subscriptions: views.py subscribe_to_category, unsubscribe_from_category *)

\* Subscription.objects.filter(user=u, category=c)
SubRows(u, c) == {s \in subscriptions : s.user = u /\ s.category = c}

\* QuerySet.get_or_create(user=u, category=c) run without interruption:
\* get() answers the row when there is exactly one, raises
\* MultipleObjectsReturned when there are several, and create() runs when
\* there is none.
GetOrCreateStatus_AlwaysCreate(u, c) == "created"

GetOrCreateStatus(u, c) ==
    IF Cardinality(SubRows(u, c)) = 0 THEN "created"
    ELSE IF Cardinality(SubRows(u, c)) = 1 THEN "exists"
    ELSE "raised"

InsertSubscription(u, c) ==
    /\ subscriptions' = subscriptions \cup {[id |-> nextSubId, user |-> u, category |-> c]}
    /\ nextSubId' = nextSubId + 1

RowsToDelete_ByUserOnly(u, c) == {s \in subscriptions : s.user = u}

\* the rows unsubscribe_from_category deletes
RowsToDelete(u, c) == SubRows(u, c)

UNCHANGED_roles == UNCHANGED <<authorsGroup, groupExists, groupPerms>>
UNCHANGED_news == UNCHANGED <<posts, nextPostId, authorRows>> /\ UNCHANGED_roles
UNCHANGED_subs == UNCHANGED <<subscriptions, nextSubId>>
UNCHANGED_act == UNCHANGED <<tokens, nextToken, isActive>>

\* subscribe_to_category as one request, start to end
Subscribe(u, cid) ==
    /\ IF cid \notin Categories
         THEN /\ lastOp' = Answer("subscribe", u, cid, "404", 0)
              /\ UNCHANGED_subs
         ELSE IF GetOrCreateStatus(u, cid) = "created"
         THEN /\ nextSubId <= MaxSubRows
              /\ InsertSubscription(u, cid)
              /\ lastOp' = Answer("subscribe", u, cid, "created", 0)
         ELSE /\ UNCHANGED_subs
              /\ lastOp' = Answer("subscribe", u, cid, GetOrCreateStatus(u, cid), 0)
    /\ UNCHANGED <<now, reqs>>
    /\ UNCHANGED_news /\ UNCHANGED_act

\* unsubscribe_from_category as one request; n is deleted_count
Unsubscribe(u, cid) ==
    /\ IF cid \notin Categories
         THEN /\ lastOp' = Answer("unsubscribe", u, cid, "404", 0)
              /\ UNCHANGED subscriptions
         ELSE /\ subscriptions' = subscriptions \ RowsToDelete(u, cid)
              /\ lastOp' = Answer("unsubscribe", u, cid,
                                  IF Cardinality(RowsToDelete(u, cid)) > 0
                                    THEN "removed" ELSE "not_subscribed",
                                  Cardinality(RowsToDelete(u, cid)))
    /\ UNCHANGED <<nextSubId, now, reqs>>
    /\ UNCHANGED_news /\ UNCHANGED_act

\* Both users have signed up and hold a fresh activation token; u1 has been
\* put into the 'authors' group, u2 is a reader; nothing else is stored yet.
Init ==
    /\ subscriptions = {}
    /\ nextSubId = 1
    /\ posts = {}
    /\ nextPostId = 1
    /\ authorRows = {}
    /\ authorsGroup = {"u1"}
    /\ groupExists = TRUE
    /\ groupPerms = PostPerms
    /\ tokens = {[token |-> 1, user |-> "u1", created_at |-> 0, activated |-> FALSE],
                 [token |-> 2, user |-> "u2", created_at |-> 0, activated |-> FALSE]}
    /\ nextToken = 3
    /\ isActive = [u \in Users |-> FALSE]
    /\ now = 0
    /\ reqs = [r \in ReqIds |-> Idle]
    /\ lastOp = NoOp

NextSub ==
    \/ \E u \in Users, cid \in CategoryIds : Subscribe(u, cid)
    \/ \E u \in Users, cid \in CategoryIds : Unsubscribe(u, cid)

SpecSub == Init /\ [][NextSub]_vars

----------------------------------------------------------------------------
(* subscribe_to_category, statement by statement.  get_or_create is a get() *)
(* followed, when it found nothing, by a create(); the two are separate     *)
(* statements and another request may run between them.                     *)

Done(r) == reqs' = [reqs EXCEPT ![r] = Idle]

\* get_object_or_404(Category, id=category_id)
SubStart(r, u, cid) ==
    /\ reqs[r].pc = "idle"
    /\ IF cid \in Categories
         THEN /\ reqs' = [reqs EXCEPT ![r] = [Idle EXCEPT !.pc = "sub_get", !.op = "subscribe",
                                                          !.who = u, !.arg = cid]]
              /\ UNCHANGED lastOp
         ELSE /\ lastOp' = Answer("subscribe", u, cid, "404", 0)
              /\ UNCHANGED reqs
    /\ UNCHANGED <<now>>
    /\ UNCHANGED_subs /\ UNCHANGED_news /\ UNCHANGED_act

\* the get() of get_or_create
SubGet(r) ==
    /\ reqs[r].pc = "sub_get"
    /\ IF GetOrCreateStatus(reqs[r].who, reqs[r].arg) = "created"
         THEN /\ reqs' = [reqs EXCEPT ![r].pc = "sub_create"]
              /\ UNCHANGED lastOp
         ELSE /\ lastOp' = Answer("subscribe", reqs[r].who, reqs[r].arg,
                                  GetOrCreateStatus(reqs[r].who, reqs[r].arg),
                                  0)
              /\ Done(r)
    /\ UNCHANGED <<now>>
    /\ UNCHANGED_subs /\ UNCHANGED_news /\ UNCHANGED_act

\* the create() of get_or_create
SubCreate(r) ==
    /\ reqs[r].pc = "sub_create"
    /\ nextSubId <= MaxSubRows
    /\ InsertSubscription(reqs[r].who, reqs[r].arg)
    /\ lastOp' = Answer("subscribe", reqs[r].who, reqs[r].arg, "created", 0)
    /\ Done(r)
    /\ UNCHANGED <<now>>
    /\ UNCHANGED_news /\ UNCHANGED_act

NextSubConc ==
    \/ \E r \in ReqIds, u \in Users, cid \in CategoryIds : SubStart(r, u, cid)
    \/ \E r \in ReqIds : SubGet(r)
    \/ \E r \in ReqIds : SubCreate(r)
    \/ \E u \in Users, cid \in CategoryIds : Unsubscribe(u, cid)

SpecSubConc == Init /\ [][NextSubConc]_vars

----------------------------------------------------------------------------
(* Claims about subscriptions *)

IsOp(o, name, u, a) == o.op = name /\ o.who = u /\ o.arg = a

\* C1: two subscribe_to_category calls in sequence for one (user, existing
\* category) pair: the call that finds no row reports created, the call that
\* directly follows a subscribe of the same pair reports "already
\* subscribed" and inserts nothing, no call raises, and after each call the
\* pair has exactly one row.
C1_SubscribeTwice ==
    [][\A u \in Users, c \in Categories :
         IsOp(lastOp', "subscribe", u, c) =>
            /\ (SubRows(u, c) = {} => lastOp'.status = "created")
            /\ (IsOp(lastOp, "subscribe", u, c) =>
                    lastOp'.status = "exists" /\ subscriptions' = subscriptions)
            /\ lastOp'.status # "raised"
            /\ Cardinality(SubRows(u, c)') = 1]_vars

\* the second of two calls has answered "already subscribed"; one row
C1_Witness ==
    /\ lastOp.op = "subscribe" /\ lastOp.status = "exists"
    /\ Cardinality(SubRows(lastOp.who, lastOp.arg)) = 1

\* C2: in every reachable state, also while two subscribe requests for the
\* same pair interleave, a (user, category) pair has at most one row.
C2_AtMostOneRowPerPair ==
    \A u \in Users, c \in Categories : Cardinality(SubRows(u, c)) <= 1

\* C3: unsubscribe_from_category for a pair without a row deletes 0 rows,
\* takes the "was not subscribed" path and leaves the whole table as it was.
C3_UnsubscribeAbsent ==
    [][\A u \in Users, c \in Categories :
         (IsOp(lastOp', "unsubscribe", u, c) /\ SubRows(u, c) = {}) =>
            /\ lastOp'.n = 0
            /\ lastOp'.status = "not_subscribed"
            /\ subscriptions' = subscriptions
            /\ nextSubId' = nextSubId]_vars

\* an unsubscribe found nothing while the same user holds another
\* category's row and the other user holds a row
C3_Witness ==
    /\ lastOp.op = "unsubscribe" /\ lastOp.status = "not_subscribed"
    /\ \E s \in subscriptions : s.user = lastOp.who /\ s.category # lastOp.arg
    /\ \E s \in subscriptions : s.user # lastOp.who

----------------------------------------------------------------------------
(* The clock *)

Tick(d) ==
    /\ now + d <= MaxClock
    /\ now' = now + d
    /\ lastOp' = [NoOp EXCEPT !.op = "tick", !.seq = 1 - lastOp.seq]
    /\ UNCHANGED reqs
    /\ UNCHANGED_subs /\ UNCHANGED_news /\ UNCHANGED_act

----------------------------------------------------------------------------
(* The author's daily news quota: views.py author_dashboard, NewsCreate,    *)
(* ArticleCreate                                                            *)

\* timezone.now().date(): timezone.now() is an aware datetime in UTC
\* (USE_TZ = True), so its date() is the UTC calendar date
UtcDate(t) == t \div HOURS_PER_DAY

\* the calendar date in TIME_ZONE = 'Europe/Moscow'
LocalDate(t) == (t + TZ_OFFSET_HOURS) \div HOURS_PER_DAY

\* timezone.make_aware(datetime.combine(d, time.min)): 00:00 of date d in the
\* current time zone (Europe/Moscow), as an instant
LocalMidnight(d) == d * HOURS_PER_DAY - TZ_OFFSET_HOURS

\* today_start of author_dashboard
TodayStart == LocalMidnight(UtcDate(now))

\* Post.objects.filter(author=author, created_at__gte=today_start)
PostsToday(u) == {p \in posts : p.author = u /\ p.created_at >= TodayStart}

\* Author.get_news_count_today(): the author's NEWS posts created since
\* today's (local) midnight
NewsCountToday(u) ==
    Cardinality({p \in posts : p.author = u /\ p.post_type = NEWS
                                /\ p.created_at >= LocalMidnight(LocalDate(now))})

\* NewsLimitMixin: lets every request through
NewsLimitAllows(u) == TRUE

\* user.has_perm('news.<perm>'): the users hold Post permissions through the
\* group 'authors' only
HasPerm(u, perm) == groupExists /\ u \in authorsGroup /\ perm \in groupPerms

\* AuthorRequiredMixin.test_func
InAuthorsGroup(u) == groupExists /\ u \in authorsGroup

\* PermissionRequiredMixinWithMessage ('news.add_post', held through the
\* 'authors' group) and AuthorRequiredMixin.test_func
MayCreate(u) == HasPerm(u, "add_post") /\ InAuthorsGroup(u)

\* the post form_valid builds: form.save(commit=False), post_type, author,
\* and the categories of the form
NewPost(u, type, cats) ==
    [id |-> nextPostId, author |-> u, post_type |-> type,
     created_at |-> now, categories |-> cats, content |-> u]

\* super().form_valid(form) and form.save_m2m(): INSERT of the post,
\* created_at = auto_now_add, and of its category links
InsertPost(u, type, cats) ==
    /\ posts' = posts \cup {NewPost(u, type, cats)}
    /\ nextPostId' = nextPostId + 1

(* The notification dispatcher: Post.send_notifications_to_subscribers *)

\* the guards of the dispatcher: only NEWS posts with a category are announced
DispatchSkips(p) == p.post_type # NEWS \/ p.categories = {}

\* the users subscribed to any category of the post, each once
Recipients(p) ==
    IF DispatchSkips(p) THEN {}
    ELSE {u \in Users : \E s \in subscriptions : s.user = u /\ s.category \in p.categories}

\* one email per recipient
DispatchMail(p) == [u \in Users |-> IF u \in Recipients(p) THEN 1 ELSE 0]

\* what the dispatcher logs when it skips
DispatchLog(p) ==
    IF p.post_type # NEWS THEN {Msg("WARNING", p.id, 0)}
    ELSE IF p.categories = {} THEN {Msg("WARNING", p.id, 0)}
    ELSE {}

\* the dispatcher raises only when it has something to send
DispatchRaises(p, raises) == raises /\ ~DispatchSkips(p)

CreateMail_NoDispatch(p) == NoMail

\* the emails of one create request: NewsCreate.form_valid hands the saved
\* post to the dispatcher, ArticleCreate.form_valid does not
CreateMail(p) == IF p.post_type = NEWS THEN DispatchMail(p) ELSE NoMail

\* the answer of form_valid: nothing catches an exception of the
\* dispatcher, so the request ends with a server error after the INSERT
CreatedAnswer(p, raises, n) ==
    IF p.post_type = NEWS /\ DispatchRaises(p, raises)
      THEN [Answer("create", p.author, 1, "error", n)
               EXCEPT !.sel = {p.id}, !.msgs = {Msg("RAISED", p.id, 0)}]
      ELSE [Answer("create", p.author, IF p.post_type = NEWS THEN 1 ELSE 0, "created", n)
               EXCEPT !.sel = {p.id}, !.mail = CreateMail(p),
                      !.msgs = IF p.post_type = NEWS THEN DispatchLog(p) ELSE {}]

\* the context value news_limit_remaining of author_dashboard
news_limit_remaining(u) == Max(0, NEWS_LIMIT - Cardinality(PostsToday(u)))

\* the context value news_remaining of NewsCreate.get_context_data
news_remaining(u) == Max(0, NEWS_LIMIT - NewsCountToday(u))

\* author_dashboard: the group test, get_object_or_404(Author), the context;
\* n is news_limit_remaining
AuthorDashboard(u) ==
    /\ lastOp' = IF u \notin authorsGroup THEN Answer("author_dashboard", u, 0, "denied", 0)
                 ELSE IF u \notin authorRows THEN Answer("author_dashboard", u, 0, "404", 0)
                 ELSE Answer("author_dashboard", u, 0, "ok", news_limit_remaining(u))
    /\ UNCHANGED <<now, reqs>>
    /\ UNCHANGED_subs /\ UNCHANGED_news /\ UNCHANGED_act

\* GET of NewsCreate, get_context_data: the quota is shown when the user
\* has an Author row; n is news_remaining
NewsCreatePage(u) ==
    /\ lastOp' = IF ~MayCreate(u) THEN Answer("news_create_page", u, 0, "denied", 0)
                 ELSE IF u \notin authorRows THEN Answer("news_create_page", u, 0, "no_author", 0)
                 ELSE Answer("news_create_page", u, 0, "ok", news_remaining(u))
    /\ UNCHANGED <<now, reqs>>
    /\ UNCHANGED_subs /\ UNCHANGED_news /\ UNCHANGED_act

\* POST of a valid form to NewsCreate (type = NEWS) or ArticleCreate
\* (type = ARTICLE): dispatch through the mixins, then form_valid.  lastOp
\* keeps the type (arg: 1 for NEWS) and the author's count at dispatch (n).
CreatePost(u, type, cats, raises) ==
    /\ IF MayCreate(u) /\ (type = NEWS => NewsLimitAllows(u))
         THEN /\ nextPostId <= MaxPosts
              /\ authorRows' = authorRows \cup {u}
              /\ InsertPost(u, type, cats)
              /\ lastOp' = CreatedAnswer(NewPost(u, type, cats), raises, NewsCountToday(u))
         ELSE /\ UNCHANGED <<posts, nextPostId, authorRows>>
              /\ lastOp' = Answer("create", u, IF type = NEWS THEN 1 ELSE 0, "denied", 0)
    /\ UNCHANGED <<now, reqs>>
    /\ UNCHANGED_roles /\ UNCHANGED_subs /\ UNCHANGED_act

NewsCreate(u, cats, raises) == CreatePost(u, NEWS, cats, raises)
ArticleCreate(u, cats) == CreatePost(u, ARTICLE, cats, FALSE)

\* the quota does not look at categories: the forms carry none here
NextNews ==
    \/ \E u \in Users : NewsCreate(u, {}, FALSE)
    \/ \E u \in Users : ArticleCreate(u, {})
    \/ \E u \in Users : AuthorDashboard(u)
    \/ \E u \in Users : NewsCreatePage(u)
    \/ \E d \in TickSteps : Tick(d)

SpecNews == Init /\ [][NextNews]_vars

(* NewsCreate, statement by statement: the dispatch through the mixins, *)
(* then form_valid's INSERT.                                             *)

\* dispatch of NewsCreate; seenCount is the author's count at that moment
NcDispatch(r, u) ==
    /\ reqs[r].pc = "idle"
    /\ IF MayCreate(u) /\ NewsLimitAllows(u)
         THEN /\ reqs' = [reqs EXCEPT ![r] =
                            [Idle EXCEPT !.pc = "nc_save", !.op = "news_create", !.who = u,
                                         !.seenCount = NewsCountToday(u)]]
              /\ UNCHANGED lastOp
         ELSE /\ lastOp' = Answer("create", u, 1, "denied", 0)
              /\ UNCHANGED reqs
    /\ UNCHANGED <<now>>
    /\ UNCHANGED_subs /\ UNCHANGED_news /\ UNCHANGED_act

\* form_valid of NewsCreate
NcFormValid(r) ==
    /\ reqs[r].pc = "nc_save"
    /\ nextPostId <= MaxPosts
    /\ authorRows' = authorRows \cup {reqs[r].who}
    /\ InsertPost(reqs[r].who, NEWS, {})
    /\ lastOp' = CreatedAnswer(NewPost(reqs[r].who, NEWS, {}), FALSE, reqs[r].seenCount)
    /\ Done(r)
    /\ UNCHANGED <<now>>
    /\ UNCHANGED_roles /\ UNCHANGED_subs /\ UNCHANGED_act

NextNewsConc ==
    \/ \E r \in ReqIds, u \in Users : NcDispatch(r, u)
    \/ \E r \in ReqIds : NcFormValid(r)
    \/ \E d \in TickSteps : Tick(d)

SpecNewsConc == Init /\ [][NextNewsConc]_vars

----------------------------------------------------------------------------
(* Claims about the quota *)

\* the author's NEWS posts created on local calendar day d
NewsOnDay(u, d) ==
    {p \in posts : p.author = u /\ p.post_type = NEWS /\ LocalDate(p.created_at) = d}

\* C4: an author never owns more than 3 NEWS posts created on one calendar
\* day: with 3 of them, remaining is 0 and a further NewsCreate submission
\* is rejected and persists nothing.
C4_AtMostThreeNewsPerDay ==
    \A u \in Users : \A d \in 0..LocalDate(MaxClock) :
        Cardinality(NewsOnDay(u, d)) <= NEWS_LIMIT

\* C5: of two NewsCreate requests of one author that were both dispatched
\* when the author had 2 NEWS posts today, at most one persists a post: when
\* one of them has persisted its post, the insert of the other does not
\* leave more than 3 NEWS posts of the author for the day.
C5_NoOvershootAtBoundary ==
    [][\A r \in ReqIds, u \in Users :
         (/\ IsOp(lastOp, "create", u, 1) /\ lastOp.status = "created"
          /\ lastOp.n = NEWS_LIMIT - 1
          /\ reqs[r].pc = "nc_save" /\ reqs'[r].pc = "idle" /\ posts' # posts
          /\ reqs[r].who = u /\ reqs[r].seenCount = NEWS_LIMIT - 1) =>
         Cardinality(NewsOnDay(u, LocalDate(now))') <= NEWS_LIMIT]_vars

\* C6: the remaining quota shown by author_dashboard and by the NewsCreate
\* page is max(0, 3 - N), N the number of the author's NEWS posts created
\* today; ARTICLE posts do not count.
C6_RemainingCountsNewsOnly ==
    (lastOp.op \in {"author_dashboard", "news_create_page"} /\ lastOp.status = "ok") =>
        lastOp.n = Max(0, NEWS_LIMIT - Cardinality(NewsOnDay(lastOp.who, LocalDate(now))))

\* C7: whenever author_dashboard answers, no post created before the most
\* recent midnight of Europe/Moscow is among the posts it counts as today's.
C7_TodayStartsAtLocalMidnight ==
    (lastOp.op = "author_dashboard" /\ lastOp.status = "ok") =>
        \A p \in PostsToday(lastOp.who) : LocalDate(p.created_at) = LocalDate(now)

----------------------------------------------------------------------------
(* Account activation: views.py ActivationView.get *)

\* ActivationToken.objects.get(token=ts); token strings are unique
TokenRows(ts) == {t \in tokens : t.token = ts}

\* ActivationToken.is_expired(): older than the validity window
IsExpired(created_at) == now - created_at > TOKEN_VALID_HOURS

ActivateStatus_ExpiryUnchecked(ts) ==
    IF TokenRows(ts) = {} THEN "invalid"
    ELSE IF \E t \in TokenRows(ts) : t.activated THEN "already_activated"
    ELSE "success"

ActivateStatus_ActivatedUnchecked(ts) ==
    IF TokenRows(ts) = {} THEN "invalid"
    ELSE IF \E t \in TokenRows(ts) : IsExpired(t.created_at) THEN "expired"
    ELSE "success"

\* the branch ActivationView.get takes: the expiry is tested first, the
\* activated flag second
ActivateStatus(ts) ==
    IF TokenRows(ts) = {} THEN "invalid"
    ELSE IF \E t \in TokenRows(ts) : IsExpired(t.created_at) THEN "expired"
    ELSE IF \E t \in TokenRows(ts) : t.activated THEN "already_activated"
    ELSE "success"

\* activation_token.activated = True; activation_token.save()
SaveTokenActivated(ts) ==
    tokens' = {IF t.token = ts THEN [t EXCEPT !.activated = TRUE] ELSE t : t \in tokens}

\* user.is_active = True; user.save()
SaveUserActive(u) == isActive' = [isActive EXCEPT ![u] = TRUE]

\* ActivationView.get as one request
Activate(ts) ==
    /\ IF ActivateStatus(ts) = "success"
         THEN /\ SaveTokenActivated(ts)
              /\ \E t \in TokenRows(ts) : SaveUserActive(t.user)
         ELSE UNCHANGED_act
    /\ lastOp' = Answer("activate", "anon", ts, ActivateStatus(ts), 0)
    /\ UNCHANGED <<nextToken, now, reqs>>
    /\ UNCHANGED_subs /\ UNCHANGED_news

(* Resending the activation mail: views.py resend_activation_email *)

\* ActivationToken.objects.get(user=request.user)
UserTokens(u) == {t \in tokens : t.user = u}

ResendStatus_ExpiryFirst(u) ==
    IF UserTokens(u) = {} THEN "created"
    ELSE IF Cardinality(UserTokens(u)) > 1 THEN "error"
    ELSE IF \E t \in UserTokens(u) : IsExpired(t.created_at) THEN "regenerated"
    ELSE IF \E t \in UserTokens(u) : t.activated THEN "already_activated"
    ELSE "resent"

\* the branch resend_activation_email takes: DoesNotExist is caught,
\* MultipleObjectsReturned is not; the activated flag is tested first, the
\* expiry second
ResendStatus(u) ==
    IF UserTokens(u) = {} THEN "created"
    ELSE IF Cardinality(UserTokens(u)) > 1 THEN "error"
    ELSE IF \E t \in UserTokens(u) : t.activated THEN "already_activated"
    ELSE IF \E t \in UserTokens(u) : IsExpired(t.created_at) THEN "regenerated"
    ELSE "resent"

\* ActivationToken.create_token(user): a row with a fresh random string
NewToken(u) == [token |-> nextToken, user |-> u, created_at |-> now, activated |-> FALSE]

TokensAfterDelete_Skipped(u) == tokens

\* activation_token.delete() in the expired branch
TokensAfterDelete(u) == tokens \ UserTokens(u)

\* EmailService.send_welcome_email(user, activation_url): one mail to the
\* user, carrying the token string of the url
WelcomeMail(u) == [NoMail EXCEPT ![u] = 1]

\* resend_activation_email as one request; lastOp.arg is the token string
\* of the activation url that was mailed, lastOp.n the number of mails
Resend(u) ==
    /\ ResendStatus(u) \in {"created", "regenerated"} => nextToken <= MaxTokens
    /\ CASE ResendStatus(u) = "created" ->
              /\ tokens' = tokens \cup {NewToken(u)}
              /\ nextToken' = nextToken + 1
              /\ lastOp' = [Answer("resend", u, nextToken, "created", 1)
                                EXCEPT !.mail = WelcomeMail(u)]
         [] ResendStatus(u) = "regenerated" ->
              /\ tokens' = TokensAfterDelete(u) \cup {NewToken(u)}
              /\ nextToken' = nextToken + 1
              /\ lastOp' = [Answer("resend", u, nextToken, "regenerated", 1)
                                EXCEPT !.mail = WelcomeMail(u)]
         [] ResendStatus(u) = "resent" ->
              /\ UNCHANGED <<tokens, nextToken>>
              /\ \E t \in UserTokens(u) :
                    lastOp' = [Answer("resend", u, t.token, "resent", 1)
                                  EXCEPT !.mail = WelcomeMail(u)]
         [] OTHER ->
              /\ UNCHANGED <<tokens, nextToken>>
              /\ lastOp' = Answer("resend", u, 0, ResendStatus(u), 0)
    /\ UNCHANGED <<isActive, now, reqs>>
    /\ UNCHANGED_subs /\ UNCHANGED_news

\* the admin deletes the activation tokens of a user on the changelist
AdminDeleteToken(u) ==
    /\ UserTokens(u) # {}
    /\ tokens' = tokens \ UserTokens(u)
    /\ lastOp' = Answer("admin_delete_token", u, 0, "deleted", 0)
    /\ UNCHANGED <<nextToken, isActive, now, reqs>>
    /\ UNCHANGED_subs /\ UNCHANGED_news

NextAct ==
    \/ \E ts \in TokenStrings : Activate(ts)
    \/ \E u \in Users : Resend(u)
    \/ \E u \in Users : AdminDeleteToken(u)
    \/ \E d \in TickSteps : Tick(d)

SpecAct == Init /\ [][NextAct]_vars

(* ActivationView.get, statement by statement: the SELECT, the UPDATE of *)
(* the token, the UPDATE of the user.  No transaction spans the two      *)
(* UPDATEs, and only ActivationToken.DoesNotExist is caught.             *)

\* the get() and the two tests on the row it read
ActRead(r, ts) ==
    /\ reqs[r].pc = "idle"
    /\ IF ActivateStatus(ts) = "success"
         THEN /\ \E t \in TokenRows(ts) :
                   reqs' = [reqs EXCEPT ![r] = [Idle EXCEPT !.pc = "act_save_token",
                               !.op = "activate", !.arg = ts, !.seenUser = t.user,
                               !.seenCreated = t.created_at, !.seenActivated = t.activated]]
              /\ UNCHANGED lastOp
         ELSE /\ lastOp' = Answer("activate", "anon", ts, ActivateStatus(ts), 0)
              /\ UNCHANGED reqs
    /\ UNCHANGED <<now>>
    /\ UNCHANGED_subs /\ UNCHANGED_news /\ UNCHANGED_act

\* Model.save() of the instance a request holds: an UPDATE by primary key,
\* and an INSERT of the instance when the UPDATE matches no row
SaveTokenInstance(r) ==
    tokens' = {t \in tokens : t.token # reqs[r].arg} \cup
              {[token |-> reqs[r].arg, user |-> reqs[r].seenUser,
                created_at |-> reqs[r].seenCreated, activated |-> TRUE]}

\* activation_token.save()
ActSaveToken(r) ==
    /\ reqs[r].pc = "act_save_token"
    /\ SaveTokenInstance(r)
    /\ reqs' = [reqs EXCEPT ![r].pc = "act_save_user", ![r].seenActivated = TRUE]
    /\ UNCHANGED <<nextToken, isActive, now, lastOp>>
    /\ UNCHANGED_subs /\ UNCHANGED_news

\* user.save() and the response
ActSaveUser(r) ==
    /\ reqs[r].pc = "act_save_user"
    /\ SaveUserActive(reqs[r].seenUser)
    /\ lastOp' = Answer("activate", "anon", reqs[r].arg, "success", 0)
    /\ Done(r)
    /\ UNCHANGED <<tokens, nextToken, now>>
    /\ UNCHANGED_subs /\ UNCHANGED_news

\* a save() raises (a database error): the exception leaves the view, the
\* request ends with a server error and what was written stays written
ActFail(r) ==
    /\ reqs[r].pc \in {"act_save_token", "act_save_user"}
    /\ lastOp' = Answer("activate", "anon", reqs[r].arg, "error", 0)
    /\ Done(r)
    /\ UNCHANGED <<now>>
    /\ UNCHANGED_subs /\ UNCHANGED_news /\ UNCHANGED_act

(* resend_activation_email, statement by statement: the SELECT by user, *)
(* the DELETE of the expired row, the INSERT of create_token with the    *)
(* mail.  Nothing locks the user's rows between the statements.          *)

\* the get() and the tests on the row it read; the branches that write
\* nothing answer at once
RsRead(r, u) ==
    /\ reqs[r].pc = "idle"
    /\ CASE ResendStatus(u) = "created" ->
              /\ reqs' = [reqs EXCEPT ![r] = [Idle EXCEPT !.pc = "rs_create",
                              !.op = "resend", !.who = u]]
              /\ UNCHANGED lastOp
         [] ResendStatus(u) = "regenerated" ->
              /\ \E t \in UserTokens(u) :
                    reqs' = [reqs EXCEPT ![r] = [Idle EXCEPT !.pc = "rs_delete",
                                !.op = "resend", !.who = u, !.arg = t.token]]
              /\ UNCHANGED lastOp
         [] ResendStatus(u) = "resent" ->
              /\ \E t \in UserTokens(u) :
                    lastOp' = [Answer("resend", u, t.token, "resent", 1)
                                  EXCEPT !.mail = WelcomeMail(u)]
              /\ UNCHANGED reqs
         [] OTHER ->
              /\ lastOp' = Answer("resend", u, 0, ResendStatus(u), 0)
              /\ UNCHANGED reqs
    /\ UNCHANGED <<now>>
    /\ UNCHANGED_subs /\ UNCHANGED_news /\ UNCHANGED_act

\* activation_token.delete(): a DELETE by primary key, of no row when the
\* row is gone already
RsDelete(r) ==
    /\ reqs[r].pc = "rs_delete"
    /\ tokens' = tokens \ TokenRows(reqs[r].arg)
    /\ reqs' = [reqs EXCEPT ![r].pc = "rs_create"]
    /\ UNCHANGED <<nextToken, isActive, now, lastOp>>
    /\ UNCHANGED_subs /\ UNCHANGED_news

\* create_token, send_welcome_email and the response
RsCreate(r) ==
    /\ reqs[r].pc = "rs_create"
    /\ nextToken <= MaxTokens
    /\ tokens' = tokens \cup {NewToken(reqs[r].who)}
    /\ nextToken' = nextToken + 1
    /\ lastOp' = [Answer("resend", reqs[r].who, nextToken,
                         IF reqs[r].arg = 0 THEN "created" ELSE "regenerated", 1)
                      EXCEPT !.mail = WelcomeMail(reqs[r].who)]
    /\ Done(r)
    /\ UNCHANGED <<isActive, now>>
    /\ UNCHANGED_subs /\ UNCHANGED_news

NextResendConc ==
    \/ \E r \in ReqIds, u \in Users : RsRead(r, u)
    \/ \E r \in ReqIds : RsDelete(r)
    \/ \E r \in ReqIds : RsCreate(r)
    \/ \E ts \in TokenStrings : Activate(ts)
    \/ \E u \in Users : AdminDeleteToken(u)
    \/ \E d \in TickSteps : Tick(d)

SpecResendConc == Init /\ [][NextResendConc]_vars

NextActConc ==
    \/ \E r \in ReqIds, ts \in TokenStrings : ActRead(r, ts)
    \/ \E r \in ReqIds : ActSaveToken(r)
    \/ \E r \in ReqIds : ActSaveUser(r)
    \/ \E r \in ReqIds : ActFail(r)
    \/ \E d \in TickSteps : Tick(d)

SpecActConc == Init /\ [][NextActConc]_vars

----------------------------------------------------------------------------
(* Claims about activation *)

\* the row of ts is PENDING: not activated, not expired
Pending(ts) == \E t \in TokenRows(ts) : ~t.activated /\ ~IsExpired(t.created_at)

\* C8: the first activate call on a pending, unexpired token answers success
\* and sets token.activated and the owner's is_active; an activate call with
\* the same token directly after it answers already_activated and changes
\* neither the tokens nor the users.
C8_ActivateOnceThenAlready ==
    [][\A ts \in TokenStrings :
         (lastOp'.op = "activate" /\ lastOp'.arg = ts) =>
            /\ Pending(ts) =>
                  /\ lastOp'.status = "success"
                  /\ \A t \in TokenRows(ts)' : t.activated /\ isActive'[t.user]
            /\ (IsOp(lastOp, "activate", "anon", ts) /\ lastOp.status = "success") =>
                  /\ lastOp'.status = "already_activated"
                  /\ UNCHANGED <<tokens, isActive>>]_vars

\* the second call has answered already_activated; token and user are set
C8_Witness ==
    /\ lastOp.op = "activate" /\ lastOp.status = "already_activated"
    /\ \E t \in TokenRows(lastOp.arg) :
          t.activated /\ isActive[t.user] /\ ~IsExpired(t.created_at)

\* C9: when no activate call is between its two writes, a token marked
\* activated has an active owner: every call, failed ones included, has set
\* both flags or neither.
C9_BothOrNeither ==
    \A t \in tokens :
        (t.activated /\ \A r \in ReqIds : ~(reqs[r].pc = "act_save_user" /\ reqs[r].arg = t.token))
            => isActive[t.user]

\* C10: every activate call with the string of a token whose activated flag
\* is already set answers already_activated, whatever the clock says.
C10_ActivatedIsTerminal ==
    [][\A t \in tokens :
         (t.activated /\ lastOp'.op = "activate" /\ lastOp'.arg = t.token) =>
            lastOp'.status = "already_activated"]_vars

----------------------------------------------------------------------------
(* Roles: views.py become_author; the admin's group and user pages *)

\* become_author: get_or_create of the group, permissions.set(...), and, for
\* a user who is not yet a member, groups.add and get_or_create of the Author
BecomeAuthor(u) ==
    /\ groupExists' = TRUE
    /\ groupPerms' = PostPerms
    /\ IF ~InAuthorsGroup(u)
         THEN /\ authorsGroup' = authorsGroup \cup {u}
              /\ authorRows' = authorRows \cup {u}
              /\ lastOp' = Answer("become_author", u, 0, "added", 0)
         ELSE /\ UNCHANGED <<authorsGroup, authorRows>>
              /\ lastOp' = Answer("become_author", u, 0, "already", 0)
    /\ UNCHANGED <<posts, nextPostId, now, reqs>>
    /\ UNCHANGED_subs /\ UNCHANGED_act

\* CustomUserAdmin: a staff member puts a user into the group or takes the
\* user out of it
AdminSetMembership(u, member) ==
    /\ groupExists
    /\ authorsGroup' = IF member THEN authorsGroup \cup {u} ELSE authorsGroup \ {u}
    /\ lastOp' = Answer("admin_membership", u, 0, "ok", 0)
    /\ UNCHANGED <<groupExists, groupPerms, posts, nextPostId, authorRows, now, reqs>>
    /\ UNCHANGED_subs /\ UNCHANGED_act

\* CustomGroupAdmin (filter_horizontal = ['permissions']): a staff member
\* sets the permissions of the group
AdminSetGroupPerms(perms) ==
    /\ groupExists
    /\ groupPerms' = perms
    /\ lastOp' = Answer("admin_group_perms", "anon", 0, "ok", 0)
    /\ UNCHANGED <<groupExists, authorsGroup, posts, nextPostId, authorRows, now, reqs>>
    /\ UNCHANGED_subs /\ UNCHANGED_act

\* CustomGroupAdmin: a staff member deletes the group
AdminDeleteGroup ==
    /\ groupExists
    /\ groupExists' = FALSE
    /\ groupPerms' = {}
    /\ authorsGroup' = {}
    /\ lastOp' = Answer("admin_group_delete", "anon", 0, "ok", 0)
    /\ UNCHANGED <<posts, nextPostId, authorRows, now, reqs>>
    /\ UNCHANGED_subs /\ UNCHANGED_act

AdminPermSets == {{}, {"view_post"}, PostPerms}

NextRole ==
    \/ \E u \in Users : BecomeAuthor(u)
    \/ \E u \in Users, member \in BOOLEAN : AdminSetMembership(u, member)
    \/ \E perms \in AdminPermSets : AdminSetGroupPerms(perms)
    \/ AdminDeleteGroup
    \/ \E u \in Users : AuthorDashboard(u)

SpecRole == Init /\ [][NextRole]_vars

----------------------------------------------------------------------------
(* Editing and deleting posts: views.py NewsUpdate, NewsDelete,            *)
(* ArticleUpdate, ArticleDelete                                            *)

\* OwnerRequiredMixin.test_func
OwnerTest(u, p) == p.author = u \/ u \in Staff

\* The test UserPassesTestMixin.dispatch runs for these views.  The views
\* inherit from AuthorRequiredMixin and from OwnerRequiredMixin; both define
\* test_func and dispatch calls self.test_func once, which the method
\* resolution order binds to AuthorRequiredMixin's.
EditTest(u, p) == InAuthorsGroup(u)

\* get_queryset().get(pk=pid): the views see the posts of their own type
PostOfType(pid, type) == {p \in posts : p.id = pid /\ p.post_type = type}

\* the answer of the dispatch of an edit view: permission, test_func, object
EditStatus(u, pid, type, perm) ==
    IF ~HasPerm(u, perm) THEN "denied"
    ELSE IF PostOfType(pid, type) = {} THEN "404"
    ELSE IF \E p \in PostOfType(pid, type) : ~EditTest(u, p) THEN "denied"
    ELSE "ok"

\* POST of a valid form to NewsUpdate or ArticleUpdate: the post now holds
\* the text the user submitted
UpdatePost(u, pid, type) ==
    /\ posts' = IF EditStatus(u, pid, type, "change_post") = "ok"
                  THEN {IF p.id = pid THEN [p EXCEPT !.content = u] ELSE p : p \in posts}
                  ELSE posts
    /\ lastOp' = Answer("update", u, pid, EditStatus(u, pid, type, "change_post"), 0)
    /\ UNCHANGED <<nextPostId, authorRows, now, reqs>>
    /\ UNCHANGED_roles /\ UNCHANGED_subs /\ UNCHANGED_act

\* POST to NewsDelete or ArticleDelete
DeletePost(u, pid, type) ==
    /\ posts' = IF EditStatus(u, pid, type, "delete_post") = "ok"
                  THEN posts \ PostOfType(pid, type)
                  ELSE posts
    /\ lastOp' = Answer("delete", u, pid, EditStatus(u, pid, type, "delete_post"), 0)
    /\ UNCHANGED <<nextPostId, authorRows, now, reqs>>
    /\ UNCHANGED_roles /\ UNCHANGED_subs /\ UNCHANGED_act

NewsUpdate(u, pid) == UpdatePost(u, pid, NEWS)
NewsDelete(u, pid) == DeletePost(u, pid, NEWS)
ArticleUpdate(u, pid) == UpdatePost(u, pid, ARTICLE)
ArticleDelete(u, pid) == DeletePost(u, pid, ARTICLE)

NextEdit ==
    \/ \E u \in Users : BecomeAuthor(u)
    \/ \E u \in Users : nextPostId <= MaxEditPosts /\ NewsCreate(u, {}, FALSE)
    \/ \E u \in Users : nextPostId <= MaxEditPosts /\ ArticleCreate(u, {})
    \/ \E u \in Users, pid \in 1..MaxPosts : NewsUpdate(u, pid)
    \/ \E u \in Users, pid \in 1..MaxPosts : NewsDelete(u, pid)
    \/ \E u \in Users, pid \in 1..MaxPosts : ArticleUpdate(u, pid)
    \/ \E u \in Users, pid \in 1..MaxPosts : ArticleDelete(u, pid)

SpecEdit == Init /\ [][NextEdit]_vars

\* C11: an update or delete request by a member of 'authors' who holds the
\* permission but is neither the post's author nor staff is denied and
\* leaves the posts as they were.
C11_NonOwnerDenied ==
    [][\A u \in Users : \A p \in posts :
         (/\ lastOp'.op \in {"update", "delete"} /\ lastOp'.who = u /\ lastOp'.arg = p.id
          /\ lastOp'.status # "404"
          /\ InAuthorsGroup(u) /\ HasPerm(u, "change_post") /\ HasPerm(u, "delete_post")
          /\ ~OwnerTest(u, p)) =>
         (lastOp'.status = "denied" /\ posts' = posts)]_vars

\* C18: after a become_author call the group exists with the Post
\* permissions and the caller is a member and owns an Author profile,
\* whatever the state before the call; a call directly after a call of the
\* same user changes no group, permission or Author row.
C18_BecomeAuthorProvisions ==
    [][\A u \in Users :
         IsOp(lastOp', "become_author", u, 0) =>
            /\ groupExists' /\ groupPerms' = PostPerms
            /\ u \in authorsGroup' /\ u \in authorRows'
            /\ IsOp(lastOp, "become_author", u, 0) =>
                  UNCHANGED <<authorsGroup, groupExists, groupPerms, authorRows>>]_vars

----------------------------------------------------------------------------
(* Claims about resending the activation mail and about refused activations *)

\* the only row of u is EXPIRED: not activated, older than the window
ExpiredToken(u, t) == UserTokens(u) = {t} /\ ~t.activated /\ IsExpired(t.created_at)

\* C12: a resend_activation_email call of a user sends exactly one mail, to
\* that user, when the user's token is pending (the mail carries the string
\* of that token and no token changes), when it is expired and when the
\* user has no token (then the user has a token afterwards); when the token
\* is activated it sends no mail and changes no token and no user.
C12_ResendOneMail ==
    [][\A u \in Users :
         (lastOp'.op = "resend" /\ lastOp'.who = u) =>
            /\ (\E t \in UserTokens(u) : t.activated) =>
                  /\ lastOp'.n = 0 /\ lastOp'.mail = NoMail
                  /\ UNCHANGED <<tokens, nextToken, isActive>>
            /\ (\A t \in UserTokens(u) : ~t.activated) =>
                  /\ lastOp'.n = 1 /\ lastOp'.mail = WelcomeMail(u)
                  /\ \E t \in UserTokens(u)' : t.token = lastOp'.arg
            /\ \A t \in UserTokens(u) :
                  (~t.activated /\ ~IsExpired(t.created_at)) =>
                      lastOp'.arg = t.token /\ UNCHANGED <<tokens, nextToken, isActive>>]_vars

\* a resend for an activated token that is older than the window has sent
\* nothing
C12_Witness ==
    /\ lastOp.op = "resend" /\ lastOp.status = "already_activated" /\ lastOp.n = 0
    /\ \E t \in UserTokens(lastOp.who) : t.activated /\ IsExpired(t.created_at)

\* C13: a resend_activation_email call on an expired, not activated token
\* deletes that token and leaves the user exactly one token, a fresh pending
\* one whose string is mailed; an activate call with the string of a deleted
\* token answers invalid, and an activate call with the mailed string, while
\* the new token is within its window, answers success and activates the
\* user.
C13_RegenerateReplaces ==
    [][/\ \A u \in Users : \A t \in tokens :
            (lastOp'.op = "resend" /\ lastOp'.who = u /\ ExpiredToken(u, t)) =>
               /\ t \notin tokens' /\ TokenRows(t.token)' = {}
               /\ \E nt \in tokens' :
                     /\ UserTokens(u)' = {nt}
                     /\ nt.token = lastOp'.arg /\ nt.token # t.token
                     /\ ~nt.activated /\ ~IsExpired(nt.created_at)
       /\ \A ts \in TokenStrings :
            (lastOp'.op = "activate" /\ lastOp'.arg = ts) =>
               /\ (ts < nextToken /\ TokenRows(ts) = {}) => lastOp'.status = "invalid"
               /\ (/\ lastOp.op = "resend" /\ lastOp.status = "regenerated"
                   /\ lastOp.arg = ts /\ Pending(ts)) =>
                     /\ lastOp'.status = "success"
                     /\ \A t \in TokenRows(ts)' : t.activated /\ isActive'[t.user]]_vars

\* a resend has just replaced an expired token: the user's one token is the
\* mailed one, pending, and the string of the first token has no row
C13_Witness ==
    /\ lastOp.op = "resend" /\ lastOp.status = "regenerated" /\ lastOp.n = 1
    /\ \E nt \in tokens :
          /\ UserTokens(lastOp.who) = {nt} /\ nt.token = lastOp.arg
          /\ ~nt.activated /\ ~IsExpired(nt.created_at)
    /\ \E ts \in TokenStrings : ts < lastOp.arg /\ TokenRows(ts) = {}

\* C19: an activate call answers invalid when no token has the string and
\* expired when the token with the string is older than the validity
\* window; in both cases no token and no user changes.
C19_RefusedActivationChangesNothing ==
    [][\A ts \in TokenStrings :
         (lastOp'.op = "activate" /\ lastOp'.arg = ts) =>
            /\ TokenRows(ts) = {} =>
                  lastOp'.status = "invalid" /\ UNCHANGED <<tokens, isActive>>
            /\ (\E t \in TokenRows(ts) : IsExpired(t.created_at)) =>
                  lastOp'.status = "expired" /\ UNCHANGED <<tokens, isActive>>]_vars

\* an activate call on a pending token older than the window has answered
\* expired; its owner is inactive
C19_Witness ==
    /\ lastOp.op = "activate" /\ lastOp.status = "expired"
    /\ \E t \in TokenRows(lastOp.arg) :
          IsExpired(t.created_at) /\ ~t.activated /\ ~isActive[t.user]

\* C20: in every reachable state, also while two resend_activation_email
\* requests of one user run at once, each user owns at most one activation
\* token and no resend has failed on the lookup of the token by user.
C20_AtMostOneTokenPerUser ==
    /\ \A u \in Users : Cardinality(UserTokens(u)) <= 1
    /\ ~(lastOp.op = "resend" /\ lastOp.status = "error")

----------------------------------------------------------------------------
(* Notifications by hand: admin.py PostAdmin.send_notifications_action *)

AdminSkipped_TypeOnly(p) == p.post_type # NEWS

\* the two guards of the loop: not a NEWS post, or no category
AdminSkipped(p) == p.post_type # NEWS \/ p.categories = {}

\* the posts whose dispatch raised: the except branch, error_count
AdminErrors(sel, failing) ==
    {p \in sel : ~AdminSkipped(p) /\ DispatchRaises(p, p.id \in failing)}

\* the posts whose dispatch returned: success_count
AdminSuccesses(sel, failing) ==
    {p \in sel : ~AdminSkipped(p) /\ ~DispatchRaises(p, p.id \in failing)}

\* message_user: a warning per skipped post, an error per failed post, and
\* the number of successes when there is one
AdminMessages(sel, failing) ==
    {Msg("WARNING", p.id, 0) : p \in {q \in sel : AdminSkipped(q)}} \cup
    {Msg("ERROR", p.id, 0) : p \in AdminErrors(sel, failing)} \cup
    (IF Cardinality(AdminSuccesses(sel, failing)) > 0
       THEN {Msg("SUCCESS", 0, Cardinality(AdminSuccesses(sel, failing)))}
       ELSE {})

\* the emails of the run: one dispatch per post that got through
AdminMail(sel, failing) ==
    [u \in Users |-> Cardinality({p \in AdminSuccesses(sel, failing) : u \in Recipients(p)})]

\* send_notifications_action over the selected posts; failing are the ids
\* of the posts whose dispatch raises
AdminSendNotifications(sel, failing) ==
    /\ lastOp' = [Answer("admin_send", "admin", 0, "done",
                         Cardinality(AdminSuccesses(sel, failing)))
                     EXCEPT !.mail = AdminMail(sel, failing),
                            !.msgs = AdminMessages(sel, failing),
                            !.sel = {p.id : p \in sel}]
    /\ UNCHANGED <<now, reqs>>
    /\ UNCHANGED_subs /\ UNCHANGED_news /\ UNCHANGED_act

\* the category sets of the submitted news forms
FormCategorySets == {{}, {1}, Categories}

NextNotify ==
    \/ \E u \in Users, cid \in Categories : Subscribe(u, cid)
    \/ \E u \in Users, cats \in FormCategorySets, raises \in BOOLEAN :
          nextPostId <= MaxEditPosts /\ NewsCreate(u, cats, raises)
    \/ \E u \in Users :
          nextPostId <= MaxEditPosts /\ ArticleCreate(u, Categories)
    \/ \E sel \in (SUBSET posts) \ {{}} : \E failing \in SUBSET {p.id : p \in sel} :
          AdminSendNotifications(sel, failing)

SpecNotify == Init /\ [][NextNotify]_vars

----------------------------------------------------------------------------
(* Claims about notifications *)

\* u has a subscription to a category of p
SubscribedTo(u, p) == \E c \in p.categories : SubRows(u, c) # {}

\* the posts an answer is about
Selected(o, ps) == {p \in ps : p.id \in o.sel}

\* the messages of an answer at one level
AtLevel(o, level) == {m \in o.msgs : m.level = level}

\* C14: a NewsCreate submission that is answered normally sends one email
\* to every user subscribed to at least one category of the new post, and
\* none to anybody else: a user subscribed to two of its categories gets
\* one.  A run of send_notifications_action sends every user one email per
\* selected NEWS post whose dispatch returned and to one of whose categories
\* the user is subscribed.
C14_OneMailPerSubscriber ==
    [][/\ \A p \in posts' :
            (/\ lastOp'.op = "create" /\ lastOp'.arg = 1 /\ lastOp'.status = "created"
             /\ lastOp'.sel = {p.id}) =>
               \A u \in Users : lastOp'.mail[u] = IF SubscribedTo(u, p) THEN 1 ELSE 0
       /\ lastOp'.op = "admin_send" =>
            \A u \in Users :
               lastOp'.mail[u] =
                  Cardinality({p \in Selected(lastOp', posts) :
                                 /\ p.post_type = NEWS /\ SubscribedTo(u, p)
                                 /\ Msg("ERROR", p.id, 0) \notin lastOp'.msgs})]_vars

\* a news post with both categories has been published while a user was
\* subscribed to both: that user got one email
C14_Witness ==
    /\ lastOp.op = "create" /\ lastOp.arg = 1 /\ lastOp.status = "created"
    /\ \E p \in Selected(lastOp, posts) : \E u \in Users :
          /\ p.categories = Categories
          /\ \A c \in Categories : SubRows(u, c) # {}
          /\ lastOp.mail[u] = 1

\* C15: send_notifications_action shows a warning and no error for every
\* selected post that is not NEWS or has no category, and sends nothing
\* when every selected post is one of these; a create request for a post
\* that is not NEWS or has no category is answered normally, sends nothing,
\* and logs a warning and no error when the post is NEWS.
C15_SkipsWithWarning ==
    [][/\ lastOp'.op = "admin_send" =>
            /\ \A p \in Selected(lastOp', posts) :
                  (p.post_type # NEWS \/ p.categories = {}) =>
                     /\ Msg("WARNING", p.id, 0) \in lastOp'.msgs
                     /\ Msg("ERROR", p.id, 0) \notin lastOp'.msgs
            /\ (\A p \in Selected(lastOp', posts) :
                   p.post_type # NEWS \/ p.categories = {}) =>
                  lastOp'.mail = NoMail /\ lastOp'.n = 0
       /\ \A p \in posts' \ posts :
            (/\ lastOp'.op = "create" /\ lastOp'.sel = {p.id}
             /\ (p.post_type # NEWS \/ p.categories = {})) =>
               /\ lastOp'.status = "created" /\ lastOp'.mail = NoMail
               /\ AtLevel(lastOp', "ERROR") = {} /\ AtLevel(lastOp', "RAISED") = {}
               /\ p.post_type = NEWS => Msg("WARNING", p.id, 0) \in lastOp'.msgs]_vars

\* the admin has run the action over an article with categories and a news
\* post without, with a subscriber to a category of the article: two
\* warnings, no email
C15_Witness ==
    /\ lastOp.op = "admin_send" /\ lastOp.mail = NoMail
    /\ Cardinality(AtLevel(lastOp, "WARNING")) > 1 /\ AtLevel(lastOp, "ERROR") = {}
    /\ \E p \in Selected(lastOp, posts) : p.post_type = NEWS /\ p.categories = {}
    /\ \E p \in Selected(lastOp, posts) : \E u \in Users :
          p.post_type = ARTICLE /\ SubscribedTo(u, p)

\* C16: a NewsCreate request whose dispatch raised has persisted its post
\* and is answered like any other, and a run of send_notifications_action
\* accounts for every selected post (a warning, an error or a success)
\* whatever failed.
C16_DispatchFailureContained ==
    [][/\ \A u \in Users :
            (/\ lastOp'.op = "create" /\ lastOp'.who = u
             /\ AtLevel(lastOp', "RAISED") # {}) =>
               /\ \E p \in posts' \ posts : lastOp'.sel = {p.id}
               /\ lastOp'.status = "created"
       /\ lastOp'.op = "admin_send" =>
            Cardinality(lastOp'.sel) =
               Cardinality(AtLevel(lastOp', "WARNING"))
                 + Cardinality(AtLevel(lastOp', "ERROR")) + lastOp'.n]_vars

\* C17: every run of send_notifications_action shows the admin the number
\* of successes and the number of failures, and successes, failures and
\* skipped posts add up to the selected posts.
C17_CountsReported ==
    [][lastOp'.op = "admin_send" =>
          /\ Msg("SUCCESS", 0, lastOp'.n) \in lastOp'.msgs
          /\ Msg("FAILURE", 0, Cardinality(AtLevel(lastOp', "ERROR"))) \in lastOp'.msgs
          /\ Cardinality(lastOp'.sel) =
               Cardinality(AtLevel(lastOp', "WARNING"))
                 + Cardinality(AtLevel(lastOp', "ERROR")) + lastOp'.n]_vars

----------------------------------------------------------------------------
(* Claims about concurrent activations *)

\* C21: of the activate requests for one token, also of two that run at
\* once, at most one is answered success: no success for a token follows a
\* success for the same token.
C21_AtMostOneSuccess ==
    [][\A ts \in TokenStrings :
         (/\ lastOp.op = "activate" /\ lastOp.status = "success" /\ lastOp.arg = ts
          /\ lastOp'.seq # lastOp.seq
          /\ lastOp'.op = "activate" /\ lastOp'.arg = ts) =>
            lastOp'.status # "success"]_vars

====
